---- MODULE Spec2Model ----
(***************************************************************************)
(* Model of openapi/src/v2/codegen/object.rs: the builders of an API       *)
(* object, the unified field list of a builder, and the behaviour of the   *)
(* code each builder emits (constructor, setters, Into, Sendable).         *)
(*                                                                         *)
(* The generator writes Rust text.  The model keeps the structure of that  *)
(* text: a type is a sequence of tokens, the generics of a builder type    *)
(* are a sequence of markers, a struct is a sequence of members, and the   *)
(* emitted methods are actions on one builder value.                       *)
(***************************************************************************)
EXTENDS Integers, Sequences, FiniteSets, TLC

VARIABLES
    object,     \* the ApiObject handed to the generator
    builder,    \* one ApiObjectBuilder yielded by object.builders()
    pc,         \* "start" | "building" | "done" | "sent"
    ts,         \* instantiated generics of the builder value's type
    store,      \* runtime data of the builder value: [body, params]
    last,       \* per setter name: the value given to its last call
    out,        \* the plain object returned by Into
    request     \* what the Sendable impl made of the builder

vars == <<object, builder, pc, ts, store, last, out, request>>

-----------------------------------------------------------------------------
(* Bounds *)

\* Leaf values given to setters are 1..MaxVal (0 is Default::default()).
MaxVal == 2
\* Most parameters and fields, taken together, that an object of the
\* behaviours of the emitted code declares.
MaxDecls == 2
\* Most sequence-of / mapping-of wrappers around the leaf of a drawn type.
MaxDepth == 3

-----------------------------------------------------------------------------
(* Option<T> *)

None == <<>>
Some(v) == <<v>>

Range(f) == {f[i] : i \in DOMAIN f}

RECURSIVE SumLen(_)
SumLen(ss) == IF ss = <<>> THEN 0 ELSE Len(Head(ss)) + SumLen(Tail(ss))

RECURSIVE Flatten(_)
Flatten(ss) == IF ss = <<>> THEN <<>> ELSE Head(ss) \o Flatten(Tail(ss))

(* Types are token sequences: String is <<"String">>, Vec<String> is       *)
(* <<"Vec", "<", "String", ">">>.                                          *)
TyString == <<"String">>
TyVecString == <<"Vec", "<", "String", ">">>
Types == {TyString, TyVecString}

FieldNames == {"id", "name"}

\* ParameterIn (crate::v2::models), the closed set of parameter locations.
ParameterIn == {"Path", "Query", "Header"}

\* struct Parameter
Parameters ==
    [name : FieldNames, ty_path : Types, required : BOOLEAN, presence : ParameterIn]

\* struct ObjectField
ObjectFields ==
    [name : FieldNames, ty_path : Types, is_required : BOOLEAN,
     children_req : {<<>>}]

\* Vec<Parameter> of a path or of an operation, as the model draws them.
ParamLists == {<<>>} \cup {<<p>> : p \in Parameters}

\* Vec<ObjectField>: field names are the keys of the schema's properties,
\* so they are distinct within one object.
FieldLists ==
    {<<>>} \cup {<<f>> : f \in ObjectFields}
    \cup {<<f, g>> : <<f, g>> \in {x \in ObjectFields \X ObjectFields :
                                      x[1].name = "id" /\ x[2].name = "name"}}

-----------------------------------------------------------------------------
(* ApiObject, PathOps, OpRequirement *)

\* HttpMethod of the operations the model draws.
HttpMethods == {"Post"}

\* struct OpRequirement (description omitted: it only feeds the docs).
OpRequirements ==
    [id : {None}, params : ParamLists, body_required : BOOLEAN,
     response_ty_path : {None}]

\* struct PathOps: req is the BTreeMap<HttpMethod, OpRequirement> as the
\* sequence of its entries in key order.
PathOpsSet ==
    [req : {<<[method |-> m, op |-> o]>> : m \in HttpMethods, o \in OpRequirements},
     params : ParamLists]

\* The names of the parameters a path's operations place in the path.
path_param_names(po) ==
    {po.params[i].name : i \in {j \in DOMAIN po.params : po.params[j].presence = "Path"}}
    \cup UNION {{po.req[m].op.params[i].name :
                   i \in {j \in DOMAIN po.req[m].op.params :
                            po.req[m].op.params[j].presence = "Path"}} :
                m \in DOMAIN po.req}

\* The URL path template the operations are declared under, segment by
\* segment: it has one placeholder per parameter placed in the path.
path_template(po) ==
    <<"/pets">>
    \o (IF "id" \in path_param_names(po) THEN <<"/{id}">> ELSE <<>>)
    \o (IF "name" \in path_param_names(po) THEN <<"/{name}">> ELSE <<>>)

\* ApiObject.paths: the BTreeMap<String, PathOps> as the sequence of its
\* entries in key order.
PathMaps == {<<>>} \cup {<<[path |-> path_template(po), ops |-> po]>> : po \in PathOpsSet}

\* struct ApiObject
ApiObjects == [name : {"Pet"}, fields : FieldLists, paths : PathMaps]

\* Configuration of the generator: the base URL prefix.
base_path == "/api"

-----------------------------------------------------------------------------
(* Objects with several paths, methods and operation identifiers *)

\* The HttpMethod keys of a PathOps.req the naming draws, in key order.
NamedMethods == <<"Get", "Post">>

\* Operation identifiers as the schema spells them: strings are sequences
\* of characters wherever their spelling matters.
IdListPets == <<"l", "i", "s", "t", "P", "e", "t", "s">>
IdGet == <<"g", "e", "t">>
OpIds == {None, Some(IdListPets), Some(IdGet)}

\* The parameter a path shares, and the parameter of an operation's own.
SharedParam ==
    [name |-> "name", ty_path |-> TyString, required |-> FALSE, presence |-> "Query"]
OwnParam ==
    [name |-> "id", ty_path |-> TyString, required |-> TRUE, presence |-> "Query"]

\* struct OpRequirement with an identifier: an operation either has no
\* parameter and no response type, or one parameter and a response type.
NamedOpRequirements ==
    {[id |-> i, params |-> <<>>, body_required |-> TRUE, response_ty_path |-> None] :
        i \in OpIds}
    \cup {[id |-> i, params |-> <<OwnParam>>, body_required |-> FALSE,
           response_ty_path |-> Some("PetList")] : i \in OpIds}

\* PathOps.req with one or two methods, in key order.
NamedReqs ==
    {<<[method |-> m, op |-> o]>> : m \in Range(NamedMethods), o \in NamedOpRequirements}
    \cup {<<[method |-> NamedMethods[1], op |-> o1], [method |-> NamedMethods[2], op |-> o2]>> :
            o1 \in NamedOpRequirements, o2 \in NamedOpRequirements}

NamedPathOps == [req : NamedReqs, params : {<<>>, <<SharedParam>>}]

\* ApiObject.paths with up to two paths, in key order.
NamedPathMaps ==
    {<<>>}
    \cup {<<[path |-> <<"/pets">>, ops |-> po]>> : po \in NamedPathOps}
    \cup {<<[path |-> <<"/pets">>, ops |-> po1],
             [path |-> <<"/pets", "/search">>, ops |-> po2]>> :
            po1 \in NamedPathOps, po2 \in NamedPathOps}

\* The operation identifiers of the paths, one entry per operation.
op_ids(paths) ==
    Flatten([i \in DOMAIN paths |->
               [k \in DOMAIN paths[i].ops.req |-> paths[i].ops.req[k].op.id]])

\* An operation identifier is unique among the operations of the API.
UniqueIds(paths) ==
    \A j, k \in DOMAIN op_ids(paths) :
        (op_ids(paths)[j] # None /\ op_ids(paths)[j] = op_ids(paths)[k]) => j = k

NamedApiObjects ==
    [name : {"Pet"},
     fields : {<<[name |-> "id", ty_path |-> TyString, is_required |-> TRUE,
                  children_req |-> <<>>]>>},
     paths : {paths \in NamedPathMaps : UniqueIds(paths)}]

-----------------------------------------------------------------------------
(* Objects with a field of a nested type *)

TyVec == "Vec"
TyBTreeMap == "std::collections::BTreeMap"

\* The type path of a generated object.
TyTag == "crate::tag::Tag"

\* The declared type of the given wrappers, outermost first, around a leaf.
RECURSIVE type_of(_, _)
type_of(ws, leaf) ==
    IF ws = <<>> THEN <<leaf>>
    ELSE IF Head(ws) = TyVec
    THEN <<TyVec, "<">> \o type_of(Tail(ws), leaf) \o <<">">>
    ELSE <<TyBTreeMap, "<", "String", ", ">> \o type_of(Tail(ws), leaf) \o <<">">>

RECURSIVE WrapperSeqs(_)
WrapperSeqs(n) ==
    IF n = 0 THEN {<<>>}
    ELSE WrapperSeqs(n - 1)
         \cup {<<w>> \o ws : w \in {TyVec, TyBTreeMap},
                              ws \in {x \in WrapperSeqs(n - 1) : Len(x) = n - 1}}

\* The leaves and their children_req: only a generated object has any.
Leaves ==
    {[ty |-> "String", req |-> <<>>], [ty |-> TyTag, req |-> <<>>],
     [ty |-> TyTag, req |-> <<"id">>], [ty |-> TyTag, req |-> <<"id", "name">>]}

NestedFields ==
    {[name |-> "name", ty_path |-> type_of(ws, leaf.ty), is_required |-> r,
      children_req |-> leaf.req] :
        ws \in WrapperSeqs(MaxDepth), leaf \in Leaves, r \in BOOLEAN}

NestedApiObjects == [name : {"Pet"}, fields : {<<f>> : f \in NestedFields}, paths : {<<>>}]

-----------------------------------------------------------------------------
(* ApiObject::builders *)

main_builder(obj) ==
    [idx |-> 0, multiple_builders_exist |-> FALSE, rel_path |-> None,
     object |-> obj.name, method |-> None, op_id |-> None,
     body_required |-> TRUE, fields |-> obj.fields,
     global_params |-> <<>>, local_params |-> <<>>, response |-> None]

\* self.paths.values().flat_map(|path_ops| path_ops.req.iter()).count()
op_count(obj) == SumLen([i \in DOMAIN obj.paths |-> obj.paths[i].ops.req])

\* The builders of one path without the parameters the path shares.
path_builders_own_params_only(obj, i) ==
    LET entry == obj.paths[i]
        path_ops == entry.ops
    IN [k \in DOMAIN path_ops.req |->
          LET method == path_ops.req[k].method
              req == path_ops.req[k].op
          IN [idx |-> i - 1,
              multiple_builders_exist |-> op_count(obj) > 1,
              rel_path |-> Some(entry.path),
              object |-> obj.name,
              op_id |-> req.id,
              method |-> Some(method),
              body_required |-> req.body_required,
              fields |-> obj.fields,
              global_params |-> <<>>,
              local_params |-> req.params,
              response |-> req.response_ty_path]]

\* The builders of one path: enumerate() gives the path its zero-based idx.
path_builders(obj, i) ==
    LET entry == obj.paths[i]
        path_ops == entry.ops
    IN [k \in DOMAIN path_ops.req |->
          LET method == path_ops.req[k].method
              req == path_ops.req[k].op
          IN [idx |-> i - 1,
              multiple_builders_exist |-> op_count(obj) > 1,
              rel_path |-> Some(entry.path),
              object |-> obj.name,
              op_id |-> req.id,
              method |-> Some(method),
              body_required |-> req.body_required,
              fields |-> obj.fields,
              global_params |-> path_ops.params,
              local_params |-> req.params,
              response |-> req.response_ty_path]]

builders(obj) ==
    <<main_builder(obj)>> \o Flatten([i \in DOMAIN obj.paths |-> path_builders(obj, i)])

-----------------------------------------------------------------------------
(* ApiObjectBuilder::con_fn_name *)

\* char::is_uppercase / to_lowercase on the letters the names are spelled in.
is_uppercase(c) == c \in {"G", "P"}
to_lowercase(c) == CASE c = "G" -> "g" [] c = "P" -> "p" [] OTHER -> c

\* str::to_snek_case: an upper-case letter that follows a lower-case one
\* starts a new word; the words are lower-cased and joined by "_".
to_snek_case(str) ==
    Flatten([i \in DOMAIN str |->
        IF i > 1 /\ is_uppercase(str[i]) /\ ~is_uppercase(str[i - 1]) /\ str[i - 1] # "_"
        THEN <<"_", to_lowercase(str[i])>>
        ELSE <<to_lowercase(str[i])>>])

\* HttpMethod's to_string(): the method token.
method_to_string(meth) ==
    CASE meth = "Get" -> <<"G", "e", "t">>
      [] meth = "Post" -> <<"P", "o", "s", "t">>

\* usize::to_string
Digits == <<"0", "1", "2", "3", "4", "5", "6", "7", "8", "9">>
RECURSIVE usize_to_string(_)
usize_to_string(n) ==
    IF n < 10 THEN <<Digits[n + 1]>>
    ELSE usize_to_string(n \div 10) \o <<Digits[(n % 10) + 1]>>

\* con_fn_name with the numbered name carrying its suffix for every idx.
con_fn_name_always_numbered(b) ==
    IF b.method # None /\ ~b.multiple_builders_exist
    THEN Some(to_snek_case(method_to_string(b.method[1])))
    ELSE IF b.op_id # None
    THEN Some(to_snek_case(b.op_id[1]))
    ELSE IF b.method # None
    THEN Some(to_snek_case(method_to_string(b.method[1]))
              \o <<"_">> \o usize_to_string(b.idx))
    ELSE None

con_fn_name(b) ==
    IF b.method # None /\ ~b.multiple_builders_exist
    THEN Some(to_snek_case(method_to_string(b.method[1])))
    ELSE IF b.op_id # None
    THEN Some(to_snek_case(b.op_id[1]))
    ELSE IF b.method # None
    THEN Some(to_snek_case(method_to_string(b.method[1]))
              \o (IF b.idx > 0 THEN <<"_">> \o usize_to_string(b.idx) ELSE <<>>))
    ELSE None

-----------------------------------------------------------------------------
(* enum Property *)

is_required(prop) == prop \in {"RequiredField", "RequiredParam"}
is_parameter(prop) == prop \in {"RequiredParam", "OptionalParam"}
is_field(prop) == prop \in {"RequiredField", "OptionalField"}

-----------------------------------------------------------------------------
(* ApiObjectBuilder::struct_fields_iter *)

\* field_iter: the StructField of an object field.
field_struct_field(body_required, field) ==
    [name |-> field.name,
     ty |-> field.ty_path,
     prop |-> IF body_required /\ field.is_required
              THEN "RequiredField" ELSE "OptionalField",
     strict_children |-> field.children_req,
     param_loc |-> None,
     overridden |-> FALSE]

\* The StructField of a parameter.
param_struct_field(param) ==
    [name |-> param.name,
     ty |-> param.ty_path,
     prop |-> IF param.required THEN "RequiredParam" ELSE "OptionalParam",
     strict_children |-> <<>>,
     param_loc |-> Some(param.presence),
     overridden |-> FALSE]

\* The scan over the chained parameters: a parameter whose name is already
\* in the set is filtered out, the others are inserted and yielded.
RECURSIVE param_scan(_, _)
param_scan(params, set) ==
    IF params = <<>> THEN <<>>
    ELSE LET param == Head(params)
         IN IF param.name \in set
            THEN param_scan(Tail(params), set)
            ELSE <<param_struct_field(param)>>
                 \o param_scan(Tail(params), set \cup {param.name})

\* param_iter: global_params chained with local_params, then the scan.
param_iter(b) == param_scan(b.global_params \o b.local_params, {})

\* The first index of fields holding the given name (0 if none).
find_name(fields, name) ==
    LET hits == {i \in DOMAIN fields : fields[i].name = name}
    IN IF hits = {} THEN 0 ELSE CHOOSE i \in hits : \A j \in hits : i <= j

\* The collision loop marking every collision overridden, whatever the types.
RECURSIVE collide_any_type(_, _)
collide_any_type(rest, fields) ==
    IF rest = <<>> THEN fields
    ELSE LET field == Head(rest)
             i == find_name(fields, field.name)
         IN IF i # 0
            THEN collide_any_type(Tail(rest), [fields EXCEPT ![i].overridden = TRUE])
            ELSE collide_any_type(Tail(rest), Append(fields, field))

\* The collision loop over param_iter.chain(field_iter).
RECURSIVE collide(_, _)
collide(rest, fields) ==
    IF rest = <<>> THEN fields
    ELSE LET field == Head(rest)
             i == find_name(fields, field.name)
         IN IF i # 0
            THEN collide(Tail(rest),
                         IF fields[i].ty = field.ty
                         THEN [fields EXCEPT ![i].overridden = TRUE]
                         ELSE fields)
            ELSE collide(Tail(rest), Append(fields, field))

field_iter(b) ==
    [i \in DOMAIN b.fields |-> field_struct_field(b.body_required, b.fields[i])]

\* struct_fields_iter without the collision loop.
struct_fields_iter_chain_only(b) == param_iter(b) \o field_iter(b)

struct_fields_iter(b) == collide(param_iter(b) \o field_iter(b), <<>>)

\* needs_container looking at the parameters only.
needs_container_params_only(b) ==
    \/ \E i \in DOMAIN b.local_params : b.local_params[i].required
    \/ \E i \in DOMAIN b.global_params : b.global_params[i].required

\* ApiObjectBuilder::needs_container
needs_container(b) ==
    \/ \E i \in DOMAIN b.local_params : b.local_params[i].required
    \/ \E i \in DOMAIN b.global_params : b.global_params[i].required
    \/ (b.body_required /\ \E i \in DOMAIN b.fields : b.fields[i].is_required)

\* ApiObjectBuilder::has_atleast_one_field
has_atleast_one_field(b) ==
    LET fs == struct_fields_iter(b)
    IN \E i \in DOMAIN fs : is_parameter(fs[i].prop) \/ is_required(fs[i].prop)

-----------------------------------------------------------------------------
(* Generics of the builder type *)

\* enum TypeParameters
Generic == [mode |-> "Generic", name |-> ""]
ChangeOne(n) == [mode |-> "ChangeOne", name |-> n]
ReplaceAll == [mode |-> "ReplaceAll", name |-> ""]
ChangeAll == [mode |-> "ChangeAll", name |-> ""]

\* A phantom type parameter for every unified field, required or not.
required_fields_all(b) == struct_fields_iter(b)

\* The unified fields that get a phantom type parameter.
required_fields(b) ==
    SelectSeq(struct_fields_iter(b), LAMBDA f : is_required(f.prop))

\* generic_arg with ChangeOne marking every parameter, as ChangeAll does.
generic_arg_change_any(field, params) ==
    [name |-> field.name,
     marker |-> CASE params.mode \in {"ChangeOne", "ChangeAll"} -> "Exists"
                  [] params.mode = "ReplaceAll" -> "Missing"
                  [] OTHER -> "Param"]

\* One written type argument: generics::<Name>Exists, generics::Missing<Name>,
\* or the bare type parameter <Name> ("Param").
generic_arg(field, params) ==
    [name |-> field.name,
     marker |-> CASE params.mode = "ChangeOne" /\ field.name = params.name -> "Exists"
                  [] params.mode = "ChangeAll" -> "Exists"
                  [] params.mode = "ReplaceAll" -> "Missing"
                  [] OTHER -> "Param"]

\* ApiObjectBuilder::write_generics_if_necessary: the arguments written
\* between "<" and ">" (nothing is written when there are none).
write_generics_if_necessary(b, params) ==
    LET fs == required_fields(b)
    IN [i \in DOMAIN fs |-> generic_arg(fs[i], params)]

\* The type a written generics list denotes inside impl<Generics> of a
\* receiver whose own arguments are recv: a bare parameter stands for the
\* receiver's argument at that position.
instantiate(generics, recv) ==
    [i \in DOMAIN generics |->
        IF generics[i].marker = "Param" THEN recv[i] ELSE generics[i].marker]

-----------------------------------------------------------------------------
(* impl Display for ApiObjectBuilder: the builder struct and its container *)

\* write_body_field_if_required
body_member(b) ==
    IF b.body_required THEN <<[kind |-> "body", name |-> "body"]>> ELSE <<>>

\* write_parameter_if_required
param_member(field) ==
    IF is_parameter(field.prop)
    THEN <<[kind |-> "param", name |-> field.name]>> ELSE <<>>

\* The PhantomData member of a required field.
phantom_member(field) ==
    IF is_required(field.prop)
    THEN <<[kind |-> "phantom", name |-> field.name]>> ELSE <<>>

\* The members written into the builder struct itself.
builder_members(b) ==
    LET fs == struct_fields_iter(b)
        head == IF needs_container(b)
                THEN <<[kind |-> "container", name |-> "inner"]>>
                ELSE body_member(b)
    IN head \o Flatten([i \in DOMAIN fs |->
                 (IF needs_container(b) THEN <<>> ELSE param_member(fs[i]))
                 \o phantom_member(fs[i])])

\* The members written into the container struct (none without container).
container_members(b) ==
    LET fs == struct_fields_iter(b)
    IN IF needs_container(b)
       THEN body_member(b) \o Flatten([i \in DOMAIN fs |-> param_member(fs[i])])
       ELSE <<>>

\* The emitted struct definitions of one builder.
builder_struct(b) ==
    [repr_transparent |-> needs_container(b),
     generics |-> write_generics_if_necessary(b, Generic),
     members |-> builder_members(b),
     has_container |-> needs_container(b),
     container |-> container_members(b)]

-----------------------------------------------------------------------------
(* Values *)

\* Default::default() of a declared type.
default_of(ty) == IF Len(ty) > 1 THEN <<>> ELSE 0

\* The index of the first "<" of a type (0 if none): ty.find('<').
find_lt(ty) ==
    LET hits == {i \in DOMAIN ty : ty[i] = "<"}
    IN IF hits = {} THEN 0 ELSE CHOOSE i \in hits : \A j \in hits : i <= j

\* A value map that keeps the first element of a sequence only.
write_value_map_first_only(ty, value) ==
    IF find_lt(ty) # 0 /\ Len(value) > 1 THEN <<value[1]>> ELSE value

\* ApiObjectBuilderImpl::write_value_map, as the value the written
\* expression computes from the setter's argument.  value.into() on a
\* caller's value of the leaf type is the reflexive From<T> for T.
RECURSIVE write_value_map(_, _)
write_value_map(ty, value) ==
    LET i == find_lt(ty)
    IN IF i # 0
       THEN IF ty[i - 1] = "Vec"
            THEN \* value.map(|value| ..).collect::<Vec<_>>()
                 [k \in DOMAIN value |->
                     write_value_map(SubSeq(ty, i + 1, Len(ty) - 1), value[k])]
            ELSE \* value.map(|(key, value)| (key, ..)).collect::<BTreeMap<_, _>>():
                 \* the inner type starts after "<", "String", ", ".
                 LET keys == {value[k][1] : k \in DOMAIN value}
                     at(key) == CHOOSE k \in DOMAIN value :
                                  /\ value[k][1] = key
                                  /\ \A j \in DOMAIN value : value[j][1] = key => j <= k
                 IN [key \in keys |->
                       write_value_map(SubSeq(ty, i + 3, Len(ty) - 1), value[at(key)][2])]
       ELSE \* value.into()
            value

\* !ty.contains("::")
simple_type(ty) == \A i \in DOMAIN ty : ty[i] \notin {TyBTreeMap, TyTag}

\* generics:: + n.to_camel_case() + Exists
exists_marker(n) ==
    CASE n = "id" -> "generics::IdExists"
      [] n = "name" -> "generics::NameExists"

\* The type arguments of the leaf's builder, separated by ", ".
RECURSIVE builder_args(_)
builder_args(req) ==
    IF req = <<>> THEN <<>>
    ELSE IF Len(req) = 1 THEN <<exists_marker(req[1])>>
    ELSE builder_args(SubSeq(req, 1, Len(req) - 1))
         \o <<", ", exists_marker(req[Len(req)])>>

\* write_builder_ty that takes what is inside the first wrapper as a leaf.
write_builder_ty_one_layer(ty, req) ==
    LET i == find_lt(ty)
    IN IF i # 0
       THEN IF ty[i - 1] = TyVec
            THEN <<"impl Iterator<Item = ", "impl Into<">>
                 \o SubSeq(ty, i + 1, Len(ty) - 1) \o <<">", ">">>
            ELSE <<"impl Iterator<Item = (String, ", "impl Into<">>
                 \o SubSeq(ty, i + 3, Len(ty) - 1) \o <<">", ")>">>
       ELSE IF simple_type(ty)
       THEN <<"impl Into<">> \o ty \o <<">">>
       ELSE ty \o (IF req # <<>>
                   THEN <<"Builder<">> \o builder_args(req) \o <<">">>
                   ELSE <<>>)

\* ApiObjectBuilderImpl::write_builder_ty: the written parameter type of a
\* setter, piece by piece.
RECURSIVE write_builder_ty(_, _)
write_builder_ty(ty, req) ==
    LET i == find_lt(ty)
    IN IF i # 0
       THEN IF ty[i - 1] = TyVec
            THEN <<"impl Iterator<Item = ">>
                 \o write_builder_ty(SubSeq(ty, i + 1, Len(ty) - 1), req)
                 \o <<">">>
            ELSE IF ty[i - 1] = TyBTreeMap
            THEN <<"impl Iterator<Item = (String, ">>
                 \o write_builder_ty(SubSeq(ty, i + 3, Len(ty) - 1), req)
                 \o <<")>">>
            ELSE <<>>
       ELSE IF simple_type(ty)
       THEN <<"impl Into<">> \o ty \o <<">">>
       ELSE ty \o (IF req # <<>>
                   THEN <<"Builder<">> \o builder_args(req) \o <<">">>
                   ELSE <<>>)

\* ApiObjectBuilderImpl::write_value_map: the written conversion expression,
\* piece by piece.
RECURSIVE write_value_map_text(_)
write_value_map_text(ty) ==
    LET i == find_lt(ty)
    IN IF i # 0
       THEN IF ty[i - 1] = TyVec
            THEN <<"value.map(|value| ">>
                 \o write_value_map_text(SubSeq(ty, i + 1, Len(ty) - 1))
                 \o <<").collect::<Vec<_>>()">>
            ELSE IF ty[i - 1] = TyBTreeMap
            THEN <<"value.map(|(key, value)| (key, ">>
                 \o write_value_map_text(SubSeq(ty, i + 3, Len(ty) - 1))
                 \o <<")).collect::<std::collections::BTreeMap<_, _>>()">>
            ELSE <<>>
       ELSE <<"value.into()">>

\* The signature and the conversion of the emitted setter of a field.
setter_text(field) ==
    [value_ty |-> write_builder_ty(field.ty, field.strict_children),
     value_map |-> write_value_map_text(field.ty)]

\* What a caller may pass to the setter of a field of the given type.
InputsOf(ty) ==
    IF Len(ty) > 1
    THEN {<<>>} \cup {<<v, (v % MaxVal) + 1>> : v \in 1..MaxVal}
    ELSE 1..MaxVal

\* The object field of the given name (names are distinct in an object).
object_field(b, name) ==
    b.fields[CHOOSE i \in DOMAIN b.fields : b.fields[i].name = name]

has_object_field(b, name) == \E i \in DOMAIN b.fields : b.fields[i].name = name

\* val.into() into the body field of that name: the plain struct declares
\* an optional field as Option<T> (impl Display for ApiObject).
into_body_field(b, name, val) ==
    IF object_field(b, name).is_required THEN val ELSE Some(val)

\* #[derive(Default)] of the plain object.
default_body(b) ==
    [n \in {b.fields[i].name : i \in DOMAIN b.fields} |->
        IF object_field(b, n).is_required
        THEN default_of(object_field(b, n).ty_path) ELSE None]

\* The names of the param_ slots of the builder.
param_names(b) ==
    LET fs == struct_fields_iter(b)
    IN {fs[i].name : i \in {j \in DOMAIN fs : is_parameter(fs[j].prop)}}

\* #[derive(Default)] of the container, or the constructor's literal.
default_store(b) ==
    [body |-> IF b.body_required THEN default_body(b) ELSE <<>>,
     params |-> [n \in param_names(b) |-> None]]

-----------------------------------------------------------------------------
(* The emitted methods *)

\* ApiObjectImpl::write_builder_methods: the constructor's return type and
\* the value it builds (inner: Default::default(), or body: Default::default()
\* and param_x: None).
write_builder_methods(b) ==
    [name |-> IF con_fn_name(b) # None THEN con_fn_name(b)[1]
              ELSE <<"b", "u", "i", "l", "d", "e", "r">>,
     ts |-> instantiate(write_generics_if_necessary(b, ReplaceAll), <<>>),
     store |-> default_store(b)]

\* Setters for the parameters only.
setter_fields_params_only(b) ==
    SelectSeq(struct_fields_iter(b), LAMBDA f : is_parameter(f.prop))

\* impl Display for ApiObjectBuilderImpl: the unified fields that get a setter.
setter_fields(b) ==
    SelectSeq(struct_fields_iter(b),
              LAMBDA f : (b.body_required /\ is_field(f.prop)) \/ is_parameter(f.prop))

\* The setter without the write into the body of an overridden field.
write_property_method_slot_only(b, field, self, value) ==
    LET val == write_value_map(field.ty, value)
        wrapped == IF is_parameter(field.prop) \/ ~is_required(field.prop)
                   THEN Some(val) ELSE val
    IN [ts |-> IF is_required(field.prop)
               THEN instantiate(write_generics_if_necessary(b, ChangeOne(field.name)),
                                self.ts)
               ELSE self.ts,
        store |-> IF is_parameter(field.prop)
                  THEN [self.store EXCEPT !.params[field.name] = wrapped]
                  ELSE [self.store EXCEPT !.body[field.name] = wrapped]]

\* ApiObjectBuilderImpl::write_property_method: the emitted setter of field,
\* applied to the builder value self = [ts, store] with argument value.
write_property_method(b, field, self, value) ==
    LET val == write_value_map(field.ty, value)
        wrapped == IF is_parameter(field.prop) \/ ~is_required(field.prop)
                   THEN Some(val) ELSE val
        \* self.[inner.]body.<name> = val.clone().into();
        st1 == IF field.overridden /\ b.body_required
               THEN [self.store EXCEPT
                        !.body[field.name] = into_body_field(b, field.name, val)]
               ELSE self.store
        st2 == IF is_parameter(field.prop)
               THEN [st1 EXCEPT !.params[field.name] = wrapped]
               ELSE [st1 EXCEPT !.body[field.name] = wrapped]
    IN [ts |-> IF is_required(field.prop)
               THEN \* unsafe { std::mem::transmute(self) }
                    instantiate(write_generics_if_necessary(b, ChangeOne(field.name)),
                                self.ts)
               ELSE \* -> Self
                    self.ts,
        store |-> st2]

\* ApiObjectImpl::write_into_impl: whether impl Into<Object> is written, and
\* the builder type it is written for.
into_emitted(b) == b.body_required

\* write_into_impl written for the constructor's type.
write_into_impl_replace_all(b) ==
    instantiate(write_generics_if_necessary(b, ReplaceAll), <<>>)

write_into_impl(b) == instantiate(write_generics_if_necessary(b, ChangeAll), <<>>)

\* The request-side view of a value: std::string::ToString::to_string.
to_string(v) == [str |-> v]

\* ApiObjectBuilderImpl::write_sendable_impl_if_needed
sendable_emitted(b) == b.rel_path # None /\ b.method # None
sendable_receiver(b) == instantiate(write_generics_if_necessary(b, ChangeAll), <<>>)

\* The path filter taking every parameter, whatever its location.
path_fields_any_location(b) ==
    SelectSeq(struct_fields_iter(b), LAMBDA f : f.param_loc # None)

path_fields(b) ==
    SelectSeq(struct_fields_iter(b), LAMBDA f : f.param_loc = Some("Path"))

\* fn path_url(&self): format!(base + path, name = param.as_ref().expect(..), ..)
path_url(b, st) ==
    LET ps == path_fields(b)
    IN IF \E i \in DOMAIN ps : st.params[ps[i].name] = None
       THEN [panicked |-> TRUE, template |-> <<>>, args |-> <<>>]
       ELSE [panicked |-> FALSE,
             template |-> <<base_path>> \o b.rel_path[1],
             args |-> [i \in DOMAIN ps |->
                         [name |-> ps[i].name, value |-> st.params[ps[i].name][1]]]]

param_fields(b) == SelectSeq(struct_fields_iter(b), LAMBDA f : f.param_loc # None)

\* The query filter taking every parameter, whatever its location.
query_fields_any_location(b) ==
    SelectSeq(struct_fields_iter(b), LAMBDA f : f.param_loc # None)

query_fields(b) == SelectSeq(struct_fields_iter(b), LAMBDA f : f.param_loc = Some("Query"))

\* fn modify(&self, req): written when the builder has a parameter.
modify(b, st) ==
    LET opened == param_fields(b) # <<>>
        qs == query_fields(b)
    IN [opened |-> opened,
        \* .json(&self.[inner.]body)
        json |-> IF opened /\ b.body_required THEN Some(st.body) ELSE None,
        \* if !query.is_empty() { .query(&[ .. ]) }
        has_query |-> qs # <<>>,
        \* .query(&[(name, param.as_ref().map(ToString::to_string)), ..])
        query |-> [i \in DOMAIN qs |->
                     [name |-> qs[i].name,
                      value |-> IF st.params[qs[i].name] = None THEN None
                                ELSE Some(to_string(st.params[qs[i].name][1]))]],
        \* the "}" of modify follows the query array only
        closed |-> qs # <<>>]

-----------------------------------------------------------------------------
(* The state machine: one object, one of its builders, one builder value *)

NoRequest ==
    [url |-> [panicked |-> FALSE, template |-> <<>>, args |-> <<>>],
     modify |-> [opened |-> FALSE, json |-> None, has_query |-> FALSE,
                 query |-> <<>>, closed |-> FALSE]]

\* The number of parameters and fields an object declares.
decl_count(obj) ==
    Len(obj.fields)
    + SumLen([i \in DOMAIN obj.paths |-> obj.paths[i].ops.params])
    + SumLen([i \in DOMAIN obj.paths |->
                Flatten([k \in DOMAIN obj.paths[i].ops.req |->
                           obj.paths[i].ops.req[k].op.params])])

\* The bare builder reads the object's fields only, so it is explored on
\* the objects without paths; every bound builder is explored.
Explored(obj, b) == b.method = None => obj.paths = <<>>

Start ==
    /\ pc = "start"
    /\ ts = <<>>
    /\ store = [body |-> <<>>, params |-> <<>>]
    /\ last = <<>>
    /\ out = <<>>
    /\ request = NoRequest

\* The behaviours of the emitted code are explored on the objects with at
\* most MaxDecls declarations.
Init ==
    /\ object \in {o \in ApiObjects : decl_count(o) <= MaxDecls}
    /\ builder \in {b \in Range(builders(object)) : Explored(object, b)}
    /\ Start

\* Every object the model draws, for the properties of generation alone.
InitGen ==
    /\ object \in ApiObjects
    /\ builder \in {b \in Range(builders(object)) : Explored(object, b)}
    /\ Start

\* Object::builder() / Object::<method>(): the constructor.
Construct ==
    /\ pc = "start"
    /\ pc' = "building"
    /\ LET new == write_builder_methods(builder)
           sf == setter_fields(builder)
       IN /\ ts' = new.ts
          /\ store' = new.store
          /\ last' = [n \in {sf[i].name : i \in DOMAIN sf} |-> None]
    /\ UNCHANGED <<object, builder, out, request>>

\* builder.<field>(value): one emitted setter.
Setter(field, value) ==
    /\ pc = "building"
    /\ LET new == write_property_method(builder, field,
                                        [ts |-> ts, store |-> store], value)
       IN /\ ts' = new.ts
          /\ store' = new.store
          /\ last' = [last EXCEPT ![field.name] = Some(value)]
    /\ UNCHANGED <<object, builder, pc, out, request>>

\* impl Into<Object> exists for the type of the builder value.
IntoAvailable == into_emitted(builder) /\ ts = write_into_impl(builder)

\* impl Sendable exists for the type of the builder value.
SendAvailable == sendable_emitted(builder) /\ ts = sendable_receiver(builder)

\* builder.into(): consumes the builder and yields the plain object.
Into ==
    /\ pc = "building"
    /\ IntoAvailable
    /\ pc' = "done"
    /\ out' = store.body
    /\ UNCHANGED <<object, builder, ts, store, last, request>>

\* The request runtime evaluating the Sendable impl of the builder.
Send ==
    /\ pc = "building"
    /\ SendAvailable
    /\ pc' = "sent"
    /\ request' = LET url == path_url(builder, store)
                  IN [url |-> url,
                      modify |-> IF url.panicked THEN NoRequest.modify
                                 ELSE modify(builder, store)]
    /\ UNCHANGED <<object, builder, ts, store, last, out>>

Next ==
    \/ Construct
    \/ \E field \in Range(setter_fields(builder)) :
          \E value \in InputsOf(field.ty) : Setter(field, value)
    \/ Into
    \/ Send

Spec == Init /\ [][Next]_vars

\* The objects with several paths, methods and operation identifiers.
InitNames ==
    /\ object \in NamedApiObjects
    /\ builder \in Range(builders(object))
    /\ Start

\* The objects with a field of a nested type, and their bare builder.
InitWalk ==
    /\ object \in NestedApiObjects
    /\ builder = main_builder(object)
    /\ Start

\* Generation alone: every drawn object, up to the constructor.
NextGen == Construct

SpecGen == InitGen /\ [][NextGen]_vars

SpecNames == InitNames /\ [][NextGen]_vars

SpecWalk == InitWalk /\ [][NextGen]_vars

-----------------------------------------------------------------------------
(* Properties *)

\* A mandatory unified field: a required parameter, or a required object
\* field of a builder whose body is required.
Mandatory(f) == f.prop \in {"RequiredParam", "RequiredField"}

MandatoryFields == SelectSeq(struct_fields_iter(builder), Mandatory)

NeverSet == \A n \in DOMAIN last : last[n] = None

\* C1: the setter of a mandatory field X returns the builder type with X's
\* phantom parameter Exists and every other phantom parameter as it was in
\* the receiver; the setter of any other field returns the receiver's type.
SetterAdvancesOnlyItsField ==
    [][\A field \in Range(setter_fields(builder)) :
         \A value \in InputsOf(field.ty) :
            Setter(field, value) =>
               LET mf == MandatoryFields
               IN /\ DOMAIN ts' = DOMAIN mf
                  /\ \A k \in DOMAIN mf :
                        ts'[k] = IF Mandatory(field) /\ mf[k].name = field.name
                                 THEN "Exists" ELSE ts[k]]_vars

\* Two mandatory fields, the setter of one called, the other still Missing,
\* and the setter of a non-mandatory field called somewhere else.
SetterAdvancesOnlyItsFieldWitness ==
    /\ pc = "building"
    /\ \E j, k \in DOMAIN MandatoryFields :
          /\ ts[j] = "Exists" /\ last[MandatoryFields[j].name] # None
          /\ ts[k] = "Missing"

\* C2: the constructor returns the typestate with every mandatory field
\* Missing, and on a builder whose body is required Into is available
\* exactly in the typestate with every mandatory field Exists.
ConstructorMissingFinalizeIffAllExist ==
    pc = "building" =>
        LET mf == MandatoryFields
        IN /\ DOMAIN ts = DOMAIN mf
           /\ NeverSet => \A k \in DOMAIN mf : ts[k] = "Missing"
           /\ builder.body_required =>
                 (IntoAvailable <=> \A k \in DOMAIN mf : ts[k] = "Exists")

\* Into has become available on a builder with two mandatory fields.
ConstructorMissingFinalizeIffAllExistWitness ==
    /\ pc = "building"
    /\ builder.body_required
    /\ Len(MandatoryFields) = 2
    /\ IntoAvailable

\* C3: a builder with a mandatory unified field has a container; the body
\* and every parameter slot are members of the container only; the builder
\* itself holds the container and one phantom marker per mandatory field,
\* and the data it holds has the same shape in every typestate.
ContainerHoldsAllData ==
    (pc \in {"start", "building"} /\ MandatoryFields # <<>>) =>
        LET s == builder_struct(builder)
            fs == struct_fields_iter(builder)
            mf == MandatoryFields
        IN /\ s.has_container
           /\ s.repr_transparent
           /\ s.members
                = <<[kind |-> "container", name |-> "inner"]>>
                  \o [k \in DOMAIN mf |-> [kind |-> "phantom", name |-> mf[k].name]]
           /\ Range(s.container)
                = (IF builder.body_required
                   THEN {[kind |-> "body", name |-> "body"]} ELSE {})
                  \cup {[kind |-> "param", name |-> fs[i].name] :
                          i \in {j \in DOMAIN fs : fs[j].param_loc # None}}
           /\ Len(s.container) = Cardinality(Range(s.container))
           /\ pc = "building" =>
                 /\ DOMAIN store.params
                      = {m.name : m \in {x \in Range(s.container) : x.kind = "param"}}
                 /\ DOMAIN store.body
                      = IF builder.body_required
                        THEN {builder.fields[i].name : i \in DOMAIN builder.fields}
                        ELSE {}

\* A builder with a mandatory field and a parameter, a body, and one
\* phantom parameter already Exists.
ContainerHoldsAllDataWitness ==
    /\ pc = "building"
    /\ builder.body_required
    /\ param_names(builder) # {}
    /\ \E k \in DOMAIN MandatoryFields : ts[k] = "Exists"
    /\ \E k \in DOMAIN MandatoryFields : MandatoryFields[k].prop = "RequiredField"

\* The unified entries of the builder that carry the given name.
EntriesNamed(name) ==
    LET fs == struct_fields_iter(builder)
    IN {k \in DOMAIN fs : fs[k].name = name}

\* The unified entry a parameter alone would give.
DerivedFrom(e, param) ==
    /\ e.ty = param.ty_path
    /\ e.prop = (IF param.required THEN "RequiredParam" ELSE "OptionalParam")
    /\ e.param_loc = Some(param.presence)

\* C4: when an operation-specific and a path-shared parameter have the same
\* name, the unified list has exactly one entry of that name, derived from
\* the operation-specific parameter.
LocalParamShadowsGlobal ==
    pc = "building" =>
        \A i \in DOMAIN builder.local_params, j \in DOMAIN builder.global_params :
            LET local == builder.local_params[i]
                global == builder.global_params[j]
                fs == struct_fields_iter(builder)
            IN local.name = global.name =>
                  /\ Cardinality(EntriesNamed(local.name)) = 1
                  /\ \A k \in EntriesNamed(local.name) : DerivedFrom(fs[k], local)

\* C5: no two entries of the unified field list have the same name.
UnifiedNamesUnique ==
    LET fs == struct_fields_iter(builder)
    IN \A i, j \in DOMAIN fs : fs[i].name = fs[j].name => i = j

\* A path-shared parameter, an operation-specific parameter and an object
\* field of one name, unified for a constructed builder.
UnifiedNamesUniqueWitness ==
    /\ pc = "building"
    /\ \E i \in DOMAIN builder.global_params, j \in DOMAIN builder.local_params,
          k \in DOMAIN builder.fields :
          /\ builder.global_params[i].name = builder.local_params[j].name
          /\ builder.global_params[i].name = builder.fields[k].name
    /\ Len(builder.fields) = 2

ParamsNamed(name) ==
    {p \in Range(builder.global_params) \cup Range(builder.local_params) : p.name = name}

\* C6: an object field that shares its name with a parameter is not in the
\* unified list; the one entry of that name is the parameter's (parameter
\* kind and location), overridden exactly when its type is the field's; no
\* other entry is overridden.
ParamShadowsField ==
    LET fs == struct_fields_iter(builder)
    IN /\ \A i \in DOMAIN builder.fields :
            LET field == builder.fields[i]
            IN ParamsNamed(field.name) # {} =>
                  /\ Cardinality(EntriesNamed(field.name)) = 1
                  /\ \A k \in EntriesNamed(field.name) :
                        /\ fs[k].prop \in {"RequiredParam", "OptionalParam"}
                        /\ \E p \in ParamsNamed(field.name) : DerivedFrom(fs[k], p)
                        /\ fs[k].overridden <=> (fs[k].ty = field.ty_path)
       /\ \A k \in DOMAIN fs :
            fs[k].overridden =>
               \E i \in DOMAIN builder.fields :
                  /\ builder.fields[i].name = fs[k].name
                  /\ builder.fields[i].ty_path = fs[k].ty
                  /\ ParamsNamed(fs[k].name) # {}

\* One parameter collides with a field of its type and another parameter
\* with a field of another type.
ParamShadowsFieldWitness ==
    /\ pc = "building"
    /\ LET fs == struct_fields_iter(builder)
       IN /\ \E k \in DOMAIN fs : fs[k].overridden
          /\ \E k \in DOMAIN fs, i \in DOMAIN builder.fields :
                /\ fs[k].name = builder.fields[i].name
                /\ fs[k].param_loc # None
                /\ fs[k].ty # builder.fields[i].ty_path
                /\ ~fs[k].overridden

\* The unified parameter entries that share name and type with an object
\* field of the builder.
SameNameAndType ==
    LET fs == struct_fields_iter(builder)
    IN {k \in DOMAIN fs :
          /\ fs[k].param_loc # None
          /\ \E i \in DOMAIN builder.fields :
                /\ builder.fields[i].name = fs[k].name
                /\ builder.fields[i].ty_path = fs[k].ty}

FieldNamed(name) ==
    builder.fields[CHOOSE i \in DOMAIN builder.fields : builder.fields[i].name = name]

\* A value as the plain object holds it in the given field.
Present(field, v) == IF field.is_required THEN v ELSE <<v>>

\* The field's value in a plain object nobody wrote to.
DefaultOf(field) ==
    IF ~field.is_required THEN <<>>
    ELSE IF field.ty_path = TyString THEN 0 ELSE <<>>

\* After calls of the setter of a parameter that shares name and type with
\* a field, the slot and the body field hold the last value given.
BothHoldLast(k) ==
    LET e == struct_fields_iter(builder)[k]
    IN last[e.name] # None =>
          /\ store.params[e.name] = <<last[e.name][1]>>
          /\ e.name \in DOMAIN store.body
          /\ store.body[e.name] = Present(FieldNamed(e.name), last[e.name][1])

\* C7, as stated: for a parameter and a field of the same name and type
\* the setter stores its value in the parameter slot and in the body field.
OverriddenSetterWritesBoth ==
    pc = "building" => \A k \in SameNameAndType : BothHoldLast(k)

\* C7, amended: the same on a builder whose body is required.
OverriddenSetterWritesBothWithBody ==
    (pc = "building" /\ builder.body_required) =>
        \A k \in SameNameAndType : BothHoldLast(k)

\* The setter of such a parameter has been called on a builder with a body.
OverriddenSetterWritesBothWithBodyWitness ==
    /\ pc = "building"
    /\ builder.body_required
    /\ builder.method # None
    /\ \E k \in SameNameAndType :
          last[struct_fields_iter(builder)[k].name] = <<MaxVal>>

\* The object field has a setter of its own: the unified entry of its name
\* is the field's, or a parameter's of the field's type.
HasOwnSetter(field) ==
    LET fs == struct_fields_iter(builder)
    IN \E k \in DOMAIN fs :
          /\ fs[k].name = field.name
          /\ (fs[k].param_loc = None \/ fs[k].ty = field.ty_path)

\* C8: after Into, every object field holds the value given to the last
\* call of its setter (present-wrapped when the field is optional, element
\* by element for a sequence), and its default when no such call was made.
RoundTrip ==
    pc = "done" =>
        \A i \in DOMAIN builder.fields :
            LET field == builder.fields[i]
                n == field.name
            IN IF HasOwnSetter(field) /\ last[n] # None
               THEN LET given == last[n][1]
                        got == IF field.is_required THEN out[n] ELSE out[n][1]
                    IN /\ field.is_required \/ Len(out[n]) = 1
                       /\ IF field.ty_path = TyString THEN got = given
                          ELSE /\ Len(got) = Len(given)
                               /\ \A j \in 1..Len(given) : got[j] = given[j]
               ELSE out[n] = DefaultOf(field)

\* Into after a sequence field was given two elements while another field
\* was left alone.
RoundTripWitness ==
    /\ pc = "done"
    /\ \E i, j \in DOMAIN builder.fields :
          /\ builder.fields[i].ty_path = TyVecString
          /\ HasOwnSetter(builder.fields[i])
          /\ last[builder.fields[i].name] # None
          /\ Len(last[builder.fields[i].name][1]) = 2
          /\ last[builder.fields[j].name] = None

\* C9: the dispatch descriptor of a builder whose body is required attaches
\* the body as the payload, whatever the parameters of the operation.
BodyAttachedWhenRequired ==
    (pc = "sent" /\ ~request.url.panicked /\ builder.body_required) =>
        request.modify.json = <<store.body>>

PathEntries ==
    SelectSeq(struct_fields_iter(builder), LAMBDA f : f.param_loc = <<"Path">>)

\* C10: path_url substitutes every path parameter by its stored value; when
\* dispatch is available every mandatory path parameter has a value, and the
\* evaluation fails exactly when a non-mandatory path parameter was never set.
PathUrlFailsIffOptionalUnset ==
    LET ps == PathEntries
    IN /\ (pc = "building" /\ SendAvailable) =>
             \A k \in DOMAIN ps : Mandatory(ps[k]) => store.params[ps[k].name] # None
       /\ pc = "sent" =>
             /\ request.url.panicked <=>
                   \E k \in DOMAIN ps : ~Mandatory(ps[k]) /\ last[ps[k].name] = None
             /\ ~request.url.panicked =>
                   /\ Len(request.url.args) = Len(ps)
                   /\ \A k \in DOMAIN ps :
                         /\ request.url.args[k].name = ps[k].name
                         /\ request.url.args[k].value = last[ps[k].name][1]

\* The evaluation failed with a mandatory path parameter set and a
\* non-mandatory one never set.
PathUrlFailsIffOptionalUnsetWitness ==
    /\ pc = "sent"
    /\ request.url.panicked
    /\ \E j, k \in DOMAIN PathEntries :
          /\ Mandatory(PathEntries[j]) /\ last[PathEntries[j].name] # None
          /\ ~Mandatory(PathEntries[k]) /\ last[PathEntries[k].name] = None

QueryEntries ==
    SelectSeq(struct_fields_iter(builder), LAMBDA f : f.param_loc = <<"Query">>)

\* C11: the dispatch descriptor has a query step exactly when the unified
\* list has a query parameter; the step holds one (wire name, value) pair
\* per query parameter, in the order of the unified list, whose value is
\* absent while the parameter was never set and the stringified value of the
\* last setter call afterwards; no other parameter contributes a pair.
QueryPairsFollowQueryParams ==
    (pc = "sent" /\ ~request.url.panicked) =>
        LET qs == QueryEntries
            m == request.modify
        IN /\ m.has_query <=> qs # <<>>
           /\ Len(m.query) = Len(qs)
           /\ \A k \in DOMAIN qs :
                 /\ m.query[k].name = qs[k].name
                 /\ m.query[k].value
                      = IF last[qs[k].name] = None THEN None
                        ELSE <<to_string(write_value_map(qs[k].ty, last[qs[k].name][1]))>>

\* Dispatch with two query parameters, one set and one never set.
QueryPairsFollowQueryParamsWitness ==
    /\ pc = "sent"
    /\ ~request.url.panicked
    /\ request.modify.has_query
    /\ \E j, k \in DOMAIN request.modify.query :
          /\ request.modify.query[j].value = None
          /\ request.modify.query[k].value = <<to_string(MaxVal)>>

\* Every place the builder type is written carries no type parameter: the
\* struct and its members, the constructor's return type, the impl headers.
NoPhantomParameters ==
    LET s == builder_struct(builder)
    IN /\ s.generics = <<>>
       /\ \A k \in DOMAIN s.members : s.members[k].kind # "phantom"
       /\ write_generics_if_necessary(builder, ReplaceAll) = <<>>
       /\ write_generics_if_necessary(builder, ChangeAll) = <<>>
       /\ \A f \in Range(setter_fields(builder)) :
             write_generics_if_necessary(builder, ChangeOne(f.name)) = <<>>
       /\ ts = <<>>

\* C12, as stated: a builder without a mandatory unified field has no
\* phantom type parameter anywhere, and the finalize conversion is available
\* on the value the constructor returns.
NoMandatoryFinalizableAtOnce ==
    (pc = "building" /\ MandatoryFields = <<>>) =>
        /\ NoPhantomParameters
        /\ NeverSet => IntoAvailable

\* C12, amended: the finalize conversion is available on the constructor's
\* value when the body is required; a bound builder is dispatchable on it.
NoMandatoryFinalizableAtOnceWithBody ==
    (pc = "building" /\ MandatoryFields = <<>>) =>
        /\ NoPhantomParameters
        /\ NeverSet =>
              /\ builder.body_required => IntoAvailable
              /\ sendable_emitted(builder) => SendAvailable
              /\ builder.body_required \/ sendable_emitted(builder)

\* A freshly constructed builder with a body and two unified fields, none
\* of them mandatory, on which Into is available.
NoMandatoryFinalizableAtOnceWithBodyWitness ==
    /\ pc = "building"
    /\ NeverSet
    /\ MandatoryFields = <<>>
    /\ Len(struct_fields_iter(builder)) = 2
    /\ builder.body_required
    /\ IntoAvailable

\* The builders of the object that use the HTTP method of the builder.
SameMethod ==
    LET bs == builders(object)
    IN {k \in DOMAIN bs : bs[k].method = builder.method}

LowerCased(str) == [i \in DOMAIN str |-> to_lowercase(str[i])]

\* C13: a bound builder whose HTTP method no other builder of the object
\* uses has the lower-cased method token as its constructor's name, whether
\* or not its operation has an identifier.
MethodNameWhenMethodUnique ==
    (pc = "building" /\ builder.method # None /\ Cardinality(SameMethod) = 1) =>
        write_builder_methods(builder).name
            = LowerCased(method_to_string(builder.method[1]))

\* The (path, method) pairs of the object: path index and method index.
PathMethodPairs ==
    {x \in (DOMAIN object.paths) \X (DOMAIN NamedMethods) :
        x[2] \in DOMAIN object.paths[x[1]].ops.req}

\* The builder is the one of the given (path, method) pair.
BoundTo(b, x) ==
    LET entry == object.paths[x[1]]
        op == entry.ops.req[x[2]]
    IN /\ b.rel_path = <<entry.path>>
       /\ b.method = <<op.method>>
       /\ b.global_params = entry.ops.params
       /\ b.local_params = op.op.params
       /\ b.response = op.op.response_ty_path
       /\ b.op_id = op.op.id
       /\ b.body_required = op.op.body_required

\* C14: builders() yields the bare builder first, without path, method,
\* response type and parameters, and then exactly one builder per
\* (path, method) pair of the object, each bound to its own pair with the
\* path's shared parameters and the operation's own parameters.
OneBareThenOnePerPathMethod ==
    LET bs == builders(object)
    IN /\ Len(bs) = 1 + Cardinality(PathMethodPairs)
       /\ bs[1].rel_path = None /\ bs[1].method = None /\ bs[1].response = None
       /\ bs[1].global_params = <<>> /\ bs[1].local_params = <<>>
       /\ \A k \in 2..Len(bs) :
             /\ bs[k].rel_path # None /\ bs[k].method # None
             /\ \E x \in PathMethodPairs : BoundTo(bs[k], x)
       /\ \A x \in PathMethodPairs :
             Cardinality({k \in 2..Len(bs) :
                            /\ bs[k].rel_path = <<object.paths[x[1]].path>>
                            /\ bs[k].method = <<object.paths[x[1]].ops.req[x[2]].method>>}) = 1
             /\ \A k \in 2..Len(bs) :
                   (/\ bs[k].rel_path = <<object.paths[x[1]].path>>
                    /\ bs[k].method = <<object.paths[x[1]].ops.req[x[2]].method>>)
                   => BoundTo(bs[k], x)

\* An object with two paths and three operations, constructed through a
\* builder that has a shared and an own parameter, while another path of
\* the object shares no parameter.
OneBareThenOnePerPathMethodWitness ==
    /\ pc = "building"
    /\ Len(builders(object)) = 4
    /\ builder.global_params # <<>>
    /\ builder.local_params # <<>>
    /\ \E i \in DOMAIN object.paths : object.paths[i].ops.params = <<>>

\* The zero-based ordinal of the builder's path among the object's paths.
PathOrdinal ==
    (CHOOSE i \in DOMAIN object.paths : <<object.paths[i].path>> = builder.rel_path) - 1

\* C16: where the object has several bound builders, the constructor of a
\* bound builder is named after the operation identifier if there is one,
\* and otherwise after the method, followed by _k for the path of ordinal
\* k > 0; the constructor of the bare builder is named builder.
IdentifierThenNumberedName ==
    pc = "building" =>
        LET name == write_builder_methods(builder).name
        IN /\ builder.method = None => name = <<"b", "u", "i", "l", "d", "e", "r">>
           /\ (builder.method # None /\ builder.multiple_builders_exist) =>
                 IF builder.op_id # None
                 THEN name = to_snek_case(builder.op_id[1])
                 ELSE name = LowerCased(method_to_string(builder.method[1]))
                             \o (IF PathOrdinal = 0 THEN <<>>
                                 ELSE <<"_", Digits[PathOrdinal + 1]>>)

\* The builder of an operation without identifier on the second path, in
\* an object that also has an operation with a camel-cased identifier.
IdentifierThenNumberedNameWitness ==
    /\ pc = "building"
    /\ builder.method = <<"Get">>
    /\ builder.op_id = None
    /\ write_builder_methods(builder).name = <<"g", "e", "t", "_", "1">>
    /\ \E k \in DOMAIN builders(object) :
          write_builder_methods(builders(object)[k]).name
              = <<"l", "i", "s", "t", "_", "p", "e", "t", "s">>

\* C19: the constructor names of the builders of one object are pairwise
\* distinct.
ConstructorNamesDistinct ==
    LET bs == builders(object)
    IN \A j, k \in DOMAIN bs :
          write_builder_methods(bs[j]).name = write_builder_methods(bs[k]).name => j = k

\* C15: on a builder whose body is required, whenever the finalize
\* conversion is available, and in the object it yields, every object field
\* the schema marks required has been written by a call of its setter, also
\* when a parameter of its name shadows it.
RequiredFieldsWrittenBeforeInto ==
    (builder.body_required /\ ((pc = "building" /\ IntoAvailable) \/ pc = "done")) =>
        \A i \in DOMAIN builder.fields :
            LET field == builder.fields[i]
            IN field.is_required =>
                  /\ HasOwnSetter(field)
                  /\ last[field.name] # None

\* C18: in the dispatch descriptor of a bound builder the request
\* modification function is closed whenever it is opened, whatever the
\* locations of the parameters and the body requirement.
ModifyClosedWhenOpened ==
    (pc = "building" /\ sendable_emitted(builder)) =>
        LET m == modify(builder, store)
        IN m.opened => m.closed

\* C20: every mandatory unified field has a setter; a mandatory field is
\* Exists exactly when its setter has been called, whatever the order of
\* the calls, and a field that is Exists stays Exists.
MandatorySettersReachAllExists ==
    /\ [](pc = "building" =>
             LET mf == MandatoryFields
                 sf == Range(setter_fields(builder))
             IN \A k \in DOMAIN mf :
                   /\ mf[k] \in sf
                   /\ ts[k] = "Exists" <=> last[mf[k].name] # None)
    /\ [][\A k \in DOMAIN ts : ts[k] = "Exists" => ts'[k] = "Exists"]_vars

\* Both setters of a builder with a mandatory parameter and a mandatory
\* object field have been called.
MandatorySettersReachAllExistsWitness ==
    /\ pc = "building"
    /\ \E j, k \in DOMAIN MandatoryFields :
          /\ MandatoryFields[j].prop = "RequiredParam"
          /\ MandatoryFields[k].prop = "RequiredField"
          /\ last[MandatoryFields[j].name] # None
          /\ last[MandatoryFields[k].name] # None
    /\ \A k \in DOMAIN ts : ts[k] = "Exists"

\* The wrappers of a declared type, outermost first, and its leaf.
WrappersOf(ty) == SelectSeq(ty, LAMBDA t : t \in {TyVec, TyBTreeMap})
LeafOf(ty) == ty[Len(ty) - Len(WrappersOf(ty))]

\* The first k pieces are the opening parts of the layers of the wrappers,
\* in their order, and the last k pieces their closing parts, mirrored.
Layered(text, ws, open, close) ==
    /\ Len(text) > 2 * Len(ws)
    /\ \A j \in DOMAIN ws :
          /\ text[j] = open[ws[j]]
          /\ text[Len(text) + 1 - j] = close[ws[j]]

\* What the layers of a written text enclose.
Innermost(text, ws) == SubSeq(text, Len(ws) + 1, Len(text) - Len(ws))

\* C17: for a declared type of k wrappers around a leaf, the parameter type
\* and the conversion expression of the setter have k layers each, in the
\* order of the wrappers (an iterator per sequence, an iterator of (key,
\* value) pairs per mapping, collected into a sequence and an ordered
\* mapping), around one leaf step: value.into() in the expression, and in
\* the type either something converted into the leaf (the leaf type itself
\* for a generated object) or, when the leaf has required children, the
\* leaf's builder with every listed child Exists.
WalkerKeepsNesting ==
    pc = "building" =>
        \A f \in Range(struct_fields_iter(builder)) :
            LET ws == WrappersOf(f.ty)
                leaf == LeafOf(f.ty)
                text == setter_text(f)
                req == f.strict_children
            IN /\ Layered(text.value_ty, ws,
                          [w \in {TyVec, TyBTreeMap} |->
                              IF w = TyVec THEN "impl Iterator<Item = "
                              ELSE "impl Iterator<Item = (String, "],
                          [w \in {TyVec, TyBTreeMap} |->
                              IF w = TyVec THEN ">" ELSE ")>"])
               /\ Layered(text.value_map, ws,
                          [w \in {TyVec, TyBTreeMap} |->
                              IF w = TyVec THEN "value.map(|value| "
                              ELSE "value.map(|(key, value)| (key, "],
                          [w \in {TyVec, TyBTreeMap} |->
                              IF w = TyVec THEN ").collect::<Vec<_>>()"
                              ELSE ")).collect::<std::collections::BTreeMap<_, _>>()"])
               /\ Innermost(text.value_map, ws) = <<"value.into()">>
               /\ LET inner == Innermost(text.value_ty, ws)
                  IN IF req = <<>>
                     THEN inner = (IF leaf = TyTag THEN <<leaf>>
                                   ELSE <<"impl Into<", leaf, ">">>)
                     ELSE /\ Len(inner) = 2 * Len(req) + 2
                          /\ inner[1] = leaf /\ inner[2] = "Builder<"
                          /\ inner[Len(inner)] = ">"
                          /\ \A j \in DOMAIN req :
                                inner[2 * j + 1] = exists_marker(req[j])

\* A sequence of mappings of sequences of a generated object with two
\* required children.
WalkerKeepsNestingWitness ==
    /\ pc = "building"
    /\ \E f \in Range(struct_fields_iter(builder)) :
          /\ WrappersOf(f.ty) = <<TyVec, TyBTreeMap, TyVec>>
          /\ LeafOf(f.ty) = TyTag
          /\ Len(f.strict_children) = 2

====
